---------------------------- MODULE Spec2Model ----------------------------
(***************************************************************************)
(* Meal planner back end: calorie splitter (calorie_splitter.py), caloric  *)
(* target of the request handler (api.py), dish filter, scorer and         *)
(* selector (dish_filter.py) and plan assembly (api.py).                   *)
(*                                                                         *)
(* Python floats are modelled by exact rationals kept as scaled integers;  *)
(* Python strings are TLA+ strings, and lower(), strip() and the other     *)
(* conversions are computed character by character.                        *)
(***************************************************************************)
EXTENDS Integers, Sequences, FiniteSets, TLC

VARIABLES
    \* calorie_splitter.split_calories
    total_calories,        \* argument
    meal_frequency,        \* argument
    calorie_distribution,  \* what the call gave: the dict or the error raised
    spc,                   \* "call" before the call, "done" after it
    \* POST /api/generate-meal-plan, the caloric target
    person,                \* the validated UserInputData fields it reads
    bmr4,                  \* bmr * 4 (bmr is a multiple of 0.25)
    caloric_intake,
    adjusted_calories,
    hpc,                   \* "call" before the request is handled, "done" after
    \* the catalog and the user profile the engine works on
    dishes,                \* self.dishes / the dishes argument
    user_data,             \* the user_data argument
    \* one call of a DishFilter method or of find_best_dish
    op,                    \* the method called, "" before the call
    args,                  \* its other arguments
    result,                \* what it returned
    history,               \* the calls of a session so far: <<op, args, result>>
    \* AIEnhancedMealPlannerService.generate_meal_plan
    plan_target,           \* the target_calories argument
    model_loaded,          \* self.model_loaded
    ppc,                   \* "call", "slots" (in the loop), "done"
    pending,               \* the slots of meal_calories the loop has not reached
    meal_calories,         \* split_calories' result
    best_dishes,           \* slot -> the best_dish of its iteration
    formatted_plan,        \* slot -> description
    actual_calories,       \* slot -> calories
    actual_proteins,       \* slot -> protein
    returned,              \* "" / "plan" (line 400) / "fallback" (line 430)
    failed_slot,           \* the slot whose iteration raised, "" when none did
    protein_targets,       \* slot -> the target_protein its dishes were scored with
    \* Several calls of generate_meal_plan on the one meal_service (line 484)
    current,               \* the call that is running
    suspended              \* the other calls -> their locals

splitVars == <<total_calories, meal_frequency, calorie_distribution, spc>>
handlerVars == <<person, bmr4, caloric_intake, adjusted_calories, hpc>>
inputVars == <<dishes, user_data>>
callVars == <<op, args, result, history>>
planVars == <<plan_target, model_loaded, ppc, pending, meal_calories,
              best_dishes, formatted_plan, actual_calories, actual_proteins,
              returned, failed_slot, protein_targets>>
requestVars == <<current, suspended>>
vars == <<splitVars, handlerVars, inputVars, callVars, planVars, requestVars>>

\* Python's None where a dish is expected
None == [None |-> TRUE]

(***************************************************************************)
(* Numbers                                                                 *)
(***************************************************************************)
Abs(x) == IF x < 0 THEN -x ELSE x

\* floor(n / d) for d > 0 (\div rounds towards minus infinity)
Floor(n, d) == n \div d

\* int(n / d): Python's int() truncates towards zero
Trunc(n, d) == IF n >= 0 THEN n \div d ELSE -((-n) \div d)

\* n / d lies exactly half way between two integers
IsTie(n, d) == 2 * (n % d) = d

\* Python 3 round(x) for x = n / d, d > 0: the nearest integer, a tie going
\* to the even neighbour
PyRound(n, d) ==
    LET f == Floor(n, d)
        r == 2 * (n - f * d)
    IN  IF r > d THEN f + 1
        ELSE IF r < d THEN f
        ELSE IF f % 2 = 0 THEN f ELSE f + 1

\* The largest power of two that is at most k, for k >= 1
RECURSIVE Pow2Below(_)
Pow2Below(k) == IF k < 2 THEN 1 ELSE 2 * Pow2Below(k \div 2)

(***************************************************************************)
(* Strings: str.lower(), str.strip(), str.replace(), "in", startswith      *)
(***************************************************************************)
Upper == <<"A", "B", "C", "D", "E", "F", "G", "H", "I", "J", "K", "L", "M",
           "N", "O", "P", "Q", "R", "S", "T", "U", "V", "W", "X", "Y", "Z">>
LowerLetters == <<"a", "b", "c", "d", "e", "f", "g", "h", "i", "j", "k", "l", "m",
                  "n", "o", "p", "q", "r", "s", "t", "u", "v", "w", "x", "y", "z">>

LowerChar(c) ==
    IF \E i \in 1..26 : Upper[i] = c
        THEN LowerLetters[CHOOSE i \in 1..26 : Upper[i] = c]
        ELSE c

\* s.lower()
RECURSIVE Lower(_)
Lower(s) ==
    IF s = "" THEN ""
    ELSE LowerChar(SubSeq(s, 1, 1)) \o Lower(SubSeq(s, 2, Len(s)))

IsSpace(c) == c \in {" ", "\t", "\n"}

RECURSIVE LStrip(_)
LStrip(s) ==
    IF s # "" /\ IsSpace(SubSeq(s, 1, 1)) THEN LStrip(SubSeq(s, 2, Len(s))) ELSE s

RECURSIVE RStrip(_)
RStrip(s) ==
    IF s # "" /\ IsSpace(SubSeq(s, Len(s), Len(s)))
        THEN RStrip(SubSeq(s, 1, Len(s) - 1))
        ELSE s

\* s.strip()
Strip(s) == RStrip(LStrip(s))

\* s.replace(a, b) for one-character a
RECURSIVE Replace(_, _, _)
Replace(s, a, b) ==
    IF s = "" THEN ""
    ELSE (IF SubSeq(s, 1, 1) = a THEN b ELSE SubSeq(s, 1, 1))
            \o Replace(SubSeq(s, 2, Len(s)), a, b)

\* s.startswith(p)
StartsWith(s, p) == Len(p) <= Len(s) /\ SubSeq(s, 1, Len(p)) = p

\* needle in hay, for strings
Contains(hay, needle) ==
    \E i \in 1..(Len(hay) - Len(needle) + 1) :
        SubSeq(hay, i, i + Len(needle) - 1) = needle

(***************************************************************************)
(* calorie_splitter.py                                                     *)
(***************************************************************************)
\* Largest total the model calls split_calories with, and how far below 1
\* the totals go.
MaxTotal == 2000
MaxNonPositive == 3

Frequencies == {"3 meals", "3 meals + 2 snacks", "2 meals", "3 Meals"}

RecognizedFrequencies == {"3 meals", "3 meals + 2 snacks"}

\* Percentages of the three meals, in thousandths (0.275, 0.325, 0.275)
breakfast_pct == 275
lunch_pct == 325
dinner_pct == 275

\* The exact quotient total * 0.275 / 10 is a tie for total = 200, 600,
\* 1000, ...; the binary64 value of total_calories * breakfast_pct / 10
\* that round() receives is the tie itself except for these totals below
\* 5400, where it is one ulp above it (38.50000000000001 for 1400).
\* total * 0.325 / 10 is on the tie at every tie below 5400.
Binary64AboveTie == {1400, 3000}

\* Mutant of RoundToTen: the quotient truncated instead of rounded
RoundToTen_Truncated(total, pct) == Floor(total * pct, 10000) * 10

\* round(total_calories * pct / 10) * 10
RoundToTen(total, pct) ==
    IF pct = breakfast_pct /\ total \in Binary64AboveTie
        THEN (Floor(total * pct, 10000) + 1) * 10
        ELSE PyRound(total * pct, 10000) * 10

\* Mutant of SnackCal: the residual is not halved
SnackCal_NotHalved(remaining_cal) == PyRound(remaining_cal, 10) * 10

\* snack_cal = round(remaining_cal / 2 / 10) * 10
SnackCal(remaining_cal) == PyRound(remaining_cal, 20) * 10

\* The body of split_calories after its two checks
Distribute(total, freq) ==
    LET breakfast_cal == RoundToTen(total, breakfast_pct)
        lunch_cal == RoundToTen(total, lunch_pct)
        dinner_cal == RoundToTen(total, dinner_pct)
        remaining_cal == total - (breakfast_cal + lunch_cal + dinner_cal)
        snack_cal == SnackCal(remaining_cal)
        meals == [m \in {"breakfast", "lunch", "dinner"} |->
                    CASE m = "breakfast" -> breakfast_cal
                      [] m = "lunch" -> lunch_cal
                      [] OTHER -> dinner_cal]
    IN  IF freq = "3 meals + 2 snacks"
            THEN [m \in {"breakfast", "lunch", "dinner", "snack_1", "snack_2"} |->
                    IF m \in {"snack_1", "snack_2"} THEN snack_cal ELSE meals[m]]
            ELSE meals

\* A dict with no key
EmptyDict == [m \in {} |-> 0]

\* What a call gives: the exception it raised ("" when it returned) and the
\* value it returned
Raised(e) == [raised |-> e, value |-> EmptyDict]
Returned(v) == [raised |-> "", value |-> v]

\* Mutant of split_calories: a total of 0 passes the first check
split_calories_ZeroAccepted(total, freq) ==
    IF total < 0 THEN Raised("ValueError")
    ELSE IF freq \notin RecognizedFrequencies THEN Raised("ValueError")
    ELSE Returned(Distribute(total, freq))

\* split_calories(total_calories, meal_frequency)
split_calories(total, freq) ==
    IF total <= 0 THEN Raised("ValueError")
    ELSE IF freq \notin RecognizedFrequencies THEN Raised("ValueError")
    ELSE Returned(Distribute(total, freq))

SplitInit ==
    /\ total_calories \in (0 - MaxNonPositive)..MaxTotal
    /\ meal_frequency \in Frequencies
    /\ calorie_distribution = Returned(EmptyDict)
    /\ spc = "call"

CallSplit ==
    /\ spc = "call"
    /\ calorie_distribution' = split_calories(total_calories, meal_frequency)
    /\ spc' = "done"
    /\ UNCHANGED <<total_calories, meal_frequency>>
    /\ UNCHANGED <<handlerVars, inputVars, callVars, planVars, requestVars>>

SplitIdle ==
    /\ total_calories = 0
    /\ meal_frequency = ""
    /\ calorie_distribution = Returned(EmptyDict)
    /\ spc = "off"

(***************************************************************************)
(* api.py: the caloric target of POST /api/generate-meal-plan              *)
(***************************************************************************)
\* The request bodies of the model: the scenario user (70 kg, 175 cm, 30
\* years) and the users this far around it.
WeightSpan == 2
HeightSpan == 1
AgeSpan == 1

Weights == (70 - WeightSpan)..(70 + WeightSpan)
Heights == (175 - HeightSpan)..(175 + HeightSpan)
Ages == (30 - AgeSpan)..(30 + AgeSpan)
Genders == {"Male", "Female", "Other"}
Lifestyles == {"active", "athletic", "elderly", "sedentary"}
Goals == {"Cardiac", "Diabetes", "Maintenance", "Medical Therapy",
          "Muscle Gain", "Recovery", "Weight Loss"}

Persons ==
    [weight_kg : Weights, height_cm : Heights, age : Ages, gender : Genders,
     lifestyle_type : Lifestyles, primary_goal : Goals]

\* Mutant of calculate_bmr: the offset -161 for every gender
calculate_bmr_FemaleOffsetForAll(weight_kg, height_cm, age, gender) ==
    40 * weight_kg + 25 * height_cm - 20 * age - 644

\* calculate_bmr, times 4: 10 * weight_kg + 6.25 * height_cm - 5 * age, plus 5
\* for "Male" and minus 161 otherwise

calculate_bmr(weight_kg, height_cm, age, gender) ==
    LET base_calc == 40 * weight_kg + 25 * height_cm - 20 * age
    IN  IF gender = "Male" THEN base_calc + 20 ELSE base_calc - 644

\* get_activity_factor, times 1000
get_activity_factor(lifestyle_type) ==
    LET l == Lower(lifestyle_type)
    IN  CASE l = "sedentary" -> 1200
          [] l = "active" -> 1550
          [] l = "elderly" -> 1200
          [] l = "athletic" -> 1725
          [] OTHER -> 1200

\* goal_adjustments.get(primary_goal, 1.0), times 100
goal_adjustment(primary_goal) ==
    CASE primary_goal = "Weight Loss" -> 85
      [] primary_goal = "Muscle Gain" -> 115
      [] primary_goal = "Maintenance" -> 100
      [] primary_goal = "Recovery" -> 110
      [] OTHER -> 100

\* caloric_intake = round(bmr * activity_factor)
RoundIntake(b4, af) == PyRound(b4 * af, 4000)

\* int(caloric_intake * adjustment). The binary64 1.15 is 0.4 ulp below 1.15,
\* so when caloric_intake * 1.15 is an integer k the binary64 product is the
\* double just below k whenever the error caloric_intake * 0.4 * 2^-52
\* exceeds half the spacing of the doubles below k, and int() then gives
\* k - 1 (int(1600 * 1.15) = 1839). The binary64 0.85 is below 0.85 by too
\* little for that, 1.1 is above 1.1 and 1.0 is exact.
AdjustTruncated(intake, adj) ==
    LET exact == Trunc(intake * adj, 100)
    IN  IF /\ adj = 115
           /\ (intake * adj) % 100 = 0
           /\ exact >= 1
           /\ 4 * intake > 5 * Pow2Below(exact)
            THEN exact - 1
            ELSE exact

HandlerInit ==
    /\ person \in Persons
    /\ bmr4 = 0
    /\ caloric_intake = 0
    /\ adjusted_calories = 0
    /\ hpc = "call"

\* Lines 515-532 of the handler: bmr, caloric_intake, adjusted_calories
ComputeCaloricTarget ==
    /\ hpc = "call"
    /\ LET bmr == calculate_bmr(person.weight_kg, person.height_cm,
                                person.age, person.gender)
           activity_factor == get_activity_factor(person.lifestyle_type)
           intake == RoundIntake(bmr, activity_factor)
           adjustment == goal_adjustment(person.primary_goal)
       IN  /\ bmr4' = bmr
           /\ caloric_intake' = intake
           /\ adjusted_calories' = AdjustTruncated(intake, adjustment)
    /\ hpc' = "done"
    /\ UNCHANGED person
    /\ UNCHANGED <<splitVars, inputVars, callVars, planVars, requestVars>>

NoPerson ==
    [weight_kg |-> 0, height_cm |-> 0, age |-> 0, gender |-> "",
     lifestyle_type |-> "", primary_goal |-> ""]

HandlerIdle ==
    /\ person = NoPerson
    /\ bmr4 = 0
    /\ caloric_intake = 0
    /\ adjusted_calories = 0
    /\ hpc = "off"

(***************************************************************************)
(* The catalog (dish_library/menu.json records) and the user profiles      *)
(***************************************************************************)
Poha ==
    [name |-> "Poha",
     meal_type |-> "breakfast",
     calories |-> 250,
     protein_grams |-> 6,
     diet_tags |-> <<"vegetarian", "vegan">>,
     allergy_risks |-> <<"Nuts">>,
     region |-> "north",
     attribute_rankings |-> [health_suitability |-> ("maintenance" :> 3 @@ "weight loss" :> 2), caloric_density |-> [low |-> 1, moderate |-> 2]],
     time_of_day_suitability |-> <<"early morning">>,
     persona_tags |-> <<"general">>,
     cultural_significance |-> "Flattened rice breakfast"]

EggBhurji ==
    [name |-> "Egg Bhurji",
     meal_type |-> "breakfast",
     calories |-> 320,
     protein_grams |-> 18,
     diet_tags |-> <<"Non-Vegetarian">>,
     allergy_risks |-> <<"eggs">>,
     region |-> "North",
     attribute_rankings |-> [dietary_suitability |-> ("non-vegetarian" :> 2)]]

DalRice ==
    [name |-> "Dal Rice",
     meal_type |-> "lunch",
     calories |-> 520,
     protein_grams |-> 21,
     diet_tags |-> <<"vegetarian", "dairy">>,
     region |-> "south",
     attribute_rankings |-> [health_suitability |-> ("weight loss" :> 2), caloric_density |-> [high |-> 2]],
     time_of_day_suitability |-> <<"afternoon">>]

Chikki ==
    [name |-> "Chikki",
     meal_type |-> "snack",
     calories |-> 150,
     protein_grams |-> 4,
     diet_tags |-> <<"vegan">>,
     allergy_risks |-> <<"nuts ">>,
     region |-> "north",
     attribute_rankings |-> [flavor_profile |-> [sweet |-> 2]]]

FruitBowl ==
    [name |-> "Fruit Bowl",
     meal_type |-> "snack"]

FishCurry ==
    [name |-> "Fish Curry",
     meal_type |-> "dinner",
     calories |-> 450,
     protein_grams |-> 30,
     diet_tags |-> <<"non-vegetarian">>,
     allergy_risks |-> <<"fish">>,
     region |-> "south",
     time_of_day_suitability |-> <<"evening", "late evening">>,
     persona_tags |-> <<"muscle-gain">>]

DishPool == {Poha, EggBhurji, DalRice, Chikki, FruitBowl, FishCurry}

ScenarioUser ==
    [age |-> 30,
     gender |-> "Male",
     height_cm |-> 175,
     weight_kg |-> 70,
     Region |-> "north",
     primary_goal |-> "Maintenance",
     lifestyle_type |-> "sedentary",
     dietary_strictness |-> "vegetarian",
     known_allergies |-> <<"nuts">>,
     preferred_meal_times |-> <<"morning">>,
     flavor_preferences |-> "mild",
     prep_skill_level |-> "beginner",
     affordability_preference |-> "moderate",
     persona_tags |-> <<"general">>]

UntrimmedUser ==
    [age |-> 25,
     gender |-> "Female",
     height_cm |-> 160,
     weight_kg |-> 60,
     primary_goal |-> "Muscle Gain",
     lifestyle_type |-> "athletic",
     dietary_strictness |-> "vegan",
     known_allergies |-> <<"Nuts ">>]

OmnivoreUser ==
    [age |-> 40,
     gender |-> "Male",
     height_cm |-> 180,
     weight_kg |-> 80,
     Region |-> "south",
     primary_goal |-> "Weight Loss",
     lifestyle_type |-> "active",
     dietary_strictness |-> "non-vegetarian",
     known_allergies |-> <<>>,
     preferred_meal_times |-> <<"evening", "night">>,
     persona_tags |-> <<"muscle-gain">>,
     Meal_Frequency |-> "3 meals"]

BareUser ==
    [age |-> 30,
     gender |-> "Female",
     height_cm |-> 175,
     weight_kg |-> 70]

UserPool == {ScenarioUser, UntrimmedUser, OmnivoreUser, BareUser}

\* The longest catalog of the model
MaxCatalog == 3

Catalogs == UNION {[1..n -> DishPool] : n \in 0..MaxCatalog}

InputInit ==
    /\ dishes \in Catalogs
    /\ user_data \in UserPool

InputIdle ==
    /\ dishes = <<>>
    /\ user_data = EmptyDict

(***************************************************************************)
(* dish_filter.py: DishFilter                                              *)
(***************************************************************************)
\* d.get(k, default)
Get(d, k, default) == IF k \in DOMAIN d THEN d[k] ELSE default

\* The set of a list's elements
Elements(list) == {list[i] : i \in 1..Len(list)}

\* [x.lower() for x in list]
LowerAll(list) == [i \in 1..Len(list) |-> Lower(list[i])]

\* self.meal_type_mapping (the keys are all the timing score reads)
meal_type_mapping ==
    [morning |-> "breakfast", afternoon |-> "lunch", evening |-> "dinner",
     night |-> "dinner", snacks |-> "snack"]

\* self.score_weights, times 10
score_weights ==
    [attribute_rankings |-> 10, dietary_match |-> 20, allergy_penalty |-> -100,
     meal_timing |-> 5, caloric_alignment |-> 3, persona_bonus |-> 8,
     protein_alignment |-> 15]

\* self.protein_requirements, times 10
protein_requirements ==
    ("muscle gain" :> 22 @@ "weight loss" :> 16 @@ "recovery" :> 18
        @@ "cardiac" :> 12 @@ "diabetes" :> 12 @@ "maintenance" :> 10
        @@ "medical therapy" :> 14)

\* activity_multipliers of calculate_user_protein_needs, times 10
activity_multipliers ==
    [athletic |-> 12, active |-> 11, sedentary |-> 10, elderly |-> 9]

\* Mutant of calculate_user_protein_needs: the activity level is not applied
calculate_user_protein_needs_NoActivity(user) ==
    Get(user, "weight_kg", 70) * 100

\* calculate_user_protein_needs, in hundredths of a gram
calculate_user_protein_needs(user) ==
    LET weight == Get(user, "weight_kg", 70)
        goal == Replace(Replace(Lower(Get(user, "primary_goal", "maintenance")),
                                " ", "_"), "_", " ")
        lifestyle == Lower(Get(user, "lifestyle_type", "sedentary"))
        base_protein == Get(protein_requirements, goal, 10) * weight
        multiplier == Get(activity_multipliers, lifestyle, 10)
    IN  base_protein * multiplier

\* protein_distribution of calculate_meal_protein_target, in hundredths
protein_distribution ==
    [breakfast |-> 25, lunch |-> 35, dinner |-> 30, snack |-> 5]

\* calculate_meal_protein_target: daily_protein in hundredths of a gram gives
\* the meal's target in ten-thousandths of a gram
calculate_meal_protein_target(daily_protein, meal_type) ==
    daily_protein * Get(protein_distribution, meal_type, 25)

\* _normalize_health_goal
goal_mapping ==
    [weight_loss |-> "weight loss", muscle_gain |-> "muscle gain",
     medical_therapy |-> "medical recovery", cardiac |-> "cardiac",
     diabetes |-> "diabetes", maintenance |-> "maintenance",
     recovery |-> "recovery"]

normalize_health_goal(goal) == Get(goal_mapping, goal, Replace(goal, "_", " "))

\* field_mapping of normalize_user_preferences: frontend key -> dish key
field_mapping ==
    [primary_goal |-> "health_suitability",
     lifestyle_type |-> "lifestyle_suitability",
     dietary_strictness |-> "dietary_suitability",
     flavor_preferences |-> "flavor_profile",
     prep_skill_level |-> "prep_complexity",
     affordability_preference |-> "ingredient_affordability"]

\* normalize_user_preferences: dish key -> normalized value, for the
\* frontend keys that are present and not empty
normalize_user_preferences(user) ==
    LET present == {k \in DOMAIN field_mapping : k \in DOMAIN user /\ user[k] # ""}
        KeyOf(dk) == CHOOSE k \in present : field_mapping[k] = dk
        Value(k) ==
            LET value == Replace(Lower(user[k]), " ", "_")
            IN  IF k = "primary_goal" THEN normalize_health_goal(value) ELSE value
    IN  [dk \in {field_mapping[k] : k \in present} |-> Value(KeyOf(dk))]

\* The attribute rankings score: the contributions found under the user's
\* normalized values
AttributeScore(dish, user) ==
    LET rankings == Get(dish, "attribute_rankings", EmptyDict)
        prefs == normalize_user_preferences(user)
        Contribution(pk) ==
            IF /\ pk \in DOMAIN prefs
               /\ pk \in DOMAIN rankings
               /\ prefs[pk] \in DOMAIN rankings[pk]
                THEN rankings[pk][prefs[pk]]
                ELSE 0
    IN  Contribution("health_suitability") + Contribution("lifestyle_suitability")
            + Contribution("dietary_suitability") + Contribution("flavor_profile")
            + Contribution("prep_complexity")
            + Contribution("ingredient_affordability")

\* Mutant of _calculate_protein_score: the widest band is tried first
calculate_protein_score_WidestFirst(dish, target_protein) ==
    LET dish_protein == Get(dish, "protein_grams", 0) * 10000
        Within(lo, hi) ==
            /\ lo * target_protein <= 10 * dish_protein
            /\ 10 * dish_protein <= hi * target_protein
    IN  IF target_protein = 0 THEN 0
        ELSE IF Within(4, 16) THEN 1
        ELSE IF Within(6, 14) THEN 2
        ELSE IF Within(8, 12) THEN 3
        ELSE -1

\* _calculate_protein_score; target_protein in ten-thousandths of a gram
calculate_protein_score(dish, target_protein) ==
    LET dish_protein == Get(dish, "protein_grams", 0) * 10000
        \* lo <= dish_protein / target_protein <= hi, lo and hi in tenths
        Within(lo, hi) ==
            /\ lo * target_protein <= 10 * dish_protein
            /\ 10 * dish_protein <= hi * target_protein
    IN  IF target_protein = 0 THEN 0
        ELSE IF Within(8, 12) THEN 3
        ELSE IF Within(6, 14) THEN 2
        ELSE IF Within(4, 16) THEN 1
        ELSE -1

\* Mutant of calculate_caloric_score: the score grows with the calls made
\* before
calculate_caloric_score_Stateful(dish, target_calories, caloric_rankings) ==
    Len(history)

\* _calculate_caloric_score
calculate_caloric_score(dish, target_calories, caloric_rankings) ==
    LET dish_calories == Get(dish, "calories", 0)
        density == IF dish_calories < 200 THEN "low"
                   ELSE IF dish_calories > 500 THEN "high"
                   ELSE "moderate"
    IN  Get(caloric_rankings, density, 0)

\* dietary_conflicts of _calculate_dietary_compatibility
dietary_conflicts ==
    ("vegan" :> <<"non-vegetarian", "dairy">>
        @@ "vegetarian" :> <<"non-vegetarian">>
        @@ "diabetic-friendly" :> <<"high-sugar", "sweet">>
        @@ "gluten-free" :> <<"gluten">>)

\* _calculate_dietary_compatibility
calculate_dietary_compatibility(dish, user) ==
    LET dish_diet_tags == Elements(LowerAll(Get(dish, "diet_tags", <<>>)))
        user_dietary == Lower(Get(user, "dietary_strictness", ""))
        direct == IF user_dietary \in dish_diet_tags THEN 3 ELSE 0
        conflict ==
            IF /\ user_dietary \in DOMAIN dietary_conflicts
               /\ Elements(dietary_conflicts[user_dietary]) \cap dish_diet_tags # {}
                THEN -5 ELSE 0
    IN  direct + conflict

\* The user's allergies as both _calculate_allergy_risk and
\* _has_allergy_conflict normalize them: stripped and lowercased, the ones
\* that strip to nothing dropped
UserAllergies(user) ==
    {Lower(Strip(a)) : a \in {x \in Elements(Get(user, "known_allergies", <<>>)) :
                                Strip(x) # ""}}

\* The dish's allergens as both normalize them: lowercased, not stripped
DishAllergens(dish) ==
    {Lower(a) : a \in Elements(Get(dish, "allergy_risks", <<>>))}

\* _calculate_allergy_risk
calculate_allergy_risk(dish, user) ==
    0 - Cardinality(UserAllergies(user) \cap DishAllergens(dish))

\* _calculate_meal_timing_score, times 2
calculate_meal_timing_score(dish, user) ==
    LET user_meal_times == Get(user, "preferred_meal_times", <<>>)
        dish_suitable_times == Get(dish, "time_of_day_suitability", <<>>)
        dish_times ==
            {t \in Elements(dish_suitable_times) :
                \E time \in Elements(user_meal_times) :
                    /\ Lower(time) \in DOMAIN meal_type_mapping
                    /\ Contains(Lower(t), Lower(time))}
    IN  IF user_meal_times = <<>> \/ dish_suitable_times = <<>> THEN 0
        ELSE Cardinality(dish_times)

\* Mutant of calculate_persona_match: the dish's tags count whatever the
\* user's are
calculate_persona_match_CountsDishTags(dish, user) ==
    Cardinality(Elements(Get(dish, "persona_tags", <<>>)))

\* _calculate_persona_match, times 2
calculate_persona_match(dish, user) ==
    Cardinality(Elements(Get(user, "persona_tags", <<>>))
                    \cap Elements(Get(dish, "persona_tags", <<>>)))

\* calculate_comprehensive_score, times 20. target_calories is 0 for None (0
\* and None both skip the caloric factor); target_protein is in
\* ten-thousandths of a gram, 0 for None (both skip the protein factor).
\* The weights are score_weights times 10, the timing and persona factors
\* are taken times 2, so every term is 20 times the code's.
calculate_comprehensive_score(dish, user, target_calories, target_protein) ==
    LET rankings == Get(dish, "attribute_rankings", EmptyDict)
        attribute == 2 * AttributeScore(dish, user) * score_weights.attribute_rankings
        caloric ==
            IF target_calories # 0 /\ "caloric_density" \in DOMAIN rankings
                THEN 2 * calculate_caloric_score(dish, target_calories,
                                                 rankings["caloric_density"])
                        * score_weights.caloric_alignment
                ELSE 0
        protein ==
            IF target_protein # 0
                THEN 2 * calculate_protein_score(dish, target_protein)
                        * score_weights.protein_alignment
                ELSE 0
        dietary == 2 * calculate_dietary_compatibility(dish, user)
                        * score_weights.dietary_match
        allergy == 2 * calculate_allergy_risk(dish, user)
                        * Abs(score_weights.allergy_penalty)
        timing == calculate_meal_timing_score(dish, user) * score_weights.meal_timing
        persona == calculate_persona_match(dish, user) * score_weights.persona_bonus
    IN  attribute + caloric + protein + dietary + allergy + timing + persona

\* _has_allergy_conflict
has_allergy_conflict(dish, user) ==
    UserAllergies(user) \cap DishAllergens(dish) # {}

\* _has_dietary_conflict
has_dietary_conflict(dish, user) ==
    LET user_dietary == Lower(Get(user, "dietary_strictness", ""))
        dish_diet_tags == Elements(LowerAll(Get(dish, "diet_tags", <<>>)))
        conflicts == [vegan |-> "non-vegetarian", vegetarian |-> "non-vegetarian"]
    IN  IF user_dietary \in DOMAIN conflicts
            THEN conflicts[user_dietary] \in dish_diet_tags
            ELSE FALSE

\* The region check of filter_dishes_by_constraints
RegionMismatch(dish, user) ==
    LET user_region == Lower(Get(user, "Region", ""))
    IN  user_region # "" /\ Lower(Get(dish, "region", "")) # user_region

\* filter_dishes_by_constraints
filter_dishes_by_constraints(dish_list, user) ==
    LET Kept(dish) ==
            /\ ~has_allergy_conflict(dish, user)
            /\ ~has_dietary_conflict(dish, user)
            /\ ~RegionMismatch(dish, user)
    IN  SelectSeq(dish_list, Kept)

\* scored_dishes.sort(key=lambda x: x[1], reverse=True): descending by score,
\* equal scores in their order in the list. scored is a list of <<dish, score>>
\* Mutant of the sort: among equal scores the later element first
RECURSIVE SortDescending_LastOfEqualsFirst(_)
SortDescending_LastOfEqualsFirst(scored) ==
    IF scored = <<>> THEN <<>>
    ELSE LET best == CHOOSE i \in 1..Len(scored) :
                        /\ \A j \in 1..Len(scored) : scored[j][2] <= scored[i][2]
                        /\ \A j \in (i + 1)..Len(scored) : scored[j][2] < scored[i][2]
         IN  <<scored[best]>>
                \o SortDescending_LastOfEqualsFirst(SubSeq(scored, 1, best - 1)
                                    \o SubSeq(scored, best + 1, Len(scored)))

RECURSIVE SortDescending(_)
SortDescending(scored) ==
    IF scored = <<>> THEN <<>>
    ELSE LET best == CHOOSE i \in 1..Len(scored) :
                        /\ \A j \in 1..Len(scored) : scored[j][2] <= scored[i][2]
                        /\ \A j \in 1..(i - 1) : scored[j][2] < scored[i][2]
         IN  <<scored[best]>>
                \o SortDescending(SubSeq(scored, 1, best - 1)
                                    \o SubSeq(scored, best + 1, Len(scored)))

\* list[:n] for n >= 0
Take(list, n) == SubSeq(list, 1, IF n < Len(list) THEN n ELSE Len(list))

\* The dishes of scored_dishes[:top_n]
TopDishes(scored, top_n) ==
    LET top == Take(SortDescending(scored), top_n)
    IN  [i \in 1..Len(top) |-> top[i][1]]

\* get_best_dishes_by_meal_type
get_best_dishes_by_meal_type(dish_list, user, meal_type, target_calories, target_protein, top_n) ==
    LET OfType(dish) == Lower(Get(dish, "meal_type", "")) = Lower(meal_type)
        meal_dishes == SelectSeq(dish_list, OfType)
        filtered_dishes == filter_dishes_by_constraints(meal_dishes, user)
        scored_dishes ==
            [i \in 1..Len(filtered_dishes) |->
                <<filtered_dishes[i],
                  calculate_comprehensive_score(filtered_dishes[i], user,
                                                target_calories, target_protein)>>]
    IN  IF meal_dishes = <<>> THEN <<>>
        ELSE IF filtered_dishes = <<>> THEN <<>>
        ELSE TopDishes(scored_dishes, top_n)

\* randomize_top_n of get_optimal_dish and top_n of find_best_dish
randomize_top_n == 3
find_best_top_n == 5

\* What random.choice(top_dishes) can return
Choices(top_dishes) == Elements(top_dishes)

\* Mutant of get_optimal_dish: None when a single dish is left
get_optimal_dish_NoneForOne(dish_list, user, meal_type, target_calories, target_protein) ==
    LET top_dishes == get_best_dishes_by_meal_type(dish_list, user, meal_type,
                            target_calories, target_protein, randomize_top_n)
    IN  IF Len(top_dishes) <= 1 THEN {None} ELSE Choices(top_dishes)

\* get_optimal_dish: the set of values it can return (None or a dish of the
\* top slice)
get_optimal_dish(dish_list, user, meal_type, target_calories, target_protein) ==
    LET top_dishes == get_best_dishes_by_meal_type(dish_list, user, meal_type,
                            target_calories, target_protein, randomize_top_n)
    IN  IF top_dishes = <<>> THEN {None} ELSE Choices(top_dishes)

\* The target_protein find_best_dish scores with (lines 481-482), in
\* ten-thousandths of a gram: daily_protein * 0.3
find_best_target_protein(user) == calculate_user_protein_needs(user) * 30

\* find_best_dish: the set of values it can return
find_best_dish(dish_list, user) ==
    LET filtered_dishes == filter_dishes_by_constraints(dish_list, user)
        target_protein == find_best_target_protein(user)
        scored_dishes ==
            [i \in 1..Len(filtered_dishes) |->
                <<filtered_dishes[i],
                  calculate_comprehensive_score(filtered_dishes[i], user,
                                                0, target_protein)>>]
        top_dishes == TopDishes(scored_dishes, find_best_top_n)
    IN  IF filtered_dishes = <<>> THEN {None} ELSE Choices(top_dishes)

(***************************************************************************)
(* One call of a DishFilter method or of find_best_dish                    *)
(***************************************************************************)
\* The arguments the model calls the scorer and the selector with: None (0)
\* and a target; target_protein in ten-thousandths of a gram
TargetCalories == {0, 500}
TargetProteins == {0, 150000}
MealTypes == {"breakfast", "lunch", "dinner", "snack", "Snack"}

CallInit ==
    /\ op = ""
    /\ args = EmptyDict
    /\ result = EmptyDict
    /\ history = <<>>

CallIdle ==
    /\ op = "off"
    /\ args = EmptyDict
    /\ result = EmptyDict
    /\ history = <<>>

CallFilter ==
    /\ op = ""
    /\ op' = "filter_dishes_by_constraints"
    /\ args' = EmptyDict
    /\ result' = filter_dishes_by_constraints(dishes, user_data)
    /\ UNCHANGED <<history, splitVars, handlerVars, inputVars, planVars, requestVars>>

CallScore ==
    /\ op = ""
    /\ \E i \in 1..Len(dishes), tc \in TargetCalories, tp \in TargetProteins :
        /\ args' = [dish |-> dishes[i], target_calories |-> tc, target_protein |-> tp]
        /\ result' = calculate_comprehensive_score(dishes[i], user_data, tc, tp)
    /\ op' = "calculate_comprehensive_score"
    /\ UNCHANGED <<history, splitVars, handlerVars, inputVars, planVars, requestVars>>

CallGetOptimal ==
    /\ op = ""
    /\ \E mt \in MealTypes, tc \in TargetCalories, tp \in TargetProteins :
        /\ args' = [meal_type |-> mt, target_calories |-> tc, target_protein |-> tp]
        /\ result' \in get_optimal_dish(dishes, user_data, mt, tc, tp)
    /\ op' = "get_optimal_dish"
    /\ UNCHANGED <<history, splitVars, handlerVars, inputVars, planVars, requestVars>>

CallFindBest ==
    /\ op = ""
    /\ op' = "find_best_dish"
    /\ args' = EmptyDict
    /\ result' \in find_best_dish(dishes, user_data)
    /\ UNCHANGED <<history, splitVars, handlerVars, inputVars, planVars, requestVars>>

(***************************************************************************)
(* One call of calculate_user_protein_needs                                *)
(***************************************************************************)
\* The primary_goal values of the model: the vocabulary of the request
\* model, other spellings of it, one outside it
NeedsGoals ==
    {"Cardiac", "Diabetes", "Maintenance", "Medical Therapy", "Muscle Gain",
     "Recovery", "Weight Loss", "muscle gain", "WEIGHT LOSS", "Weight_Loss",
     "Keto"}

\* The lifestyle_type values of the model
NeedsLifestyles == {"active", "athletic", "elderly", "sedentary", "Athletic", "couch"}

\* The profiles calculate_user_protein_needs reads: each of the three fields
\* present or absent
NeedsProfiles ==
    LET Field(k, values) == {EmptyDict} \cup {(k :> v) : v \in values}
    IN  {w @@ g @@ l : w \in Field("weight_kg", Weights),
                       g \in Field("primary_goal", NeedsGoals),
                       l \in Field("lifestyle_type", NeedsLifestyles)}

NeedsInit ==
    /\ dishes = <<>>
    /\ user_data \in NeedsProfiles

CallProteinNeeds ==
    /\ op = ""
    /\ op' = "calculate_user_protein_needs"
    /\ args' = EmptyDict
    /\ result' = calculate_user_protein_needs(user_data)
    /\ UNCHANGED <<history, splitVars, handlerVars, inputVars, planVars, requestVars>>

(***************************************************************************)
(* A session: calls of one DishFilter one after another                    *)
(***************************************************************************)
\* The longest session of the model
MaxCalls == 3

\* The catalogs, the targets <<target_calories, target_protein>> and the meal
\* types the sessions of the model use
SessionCatalogs == {<<Poha, EggBhurji>>, <<Chikki, FruitBowl>>, <<DalRice>>}
SessionTargets == {<<0, 0>>, <<500, 150000>>}
SessionMealTypes == {"breakfast", "snack"}

SessionInit ==
    /\ dishes \in SessionCatalogs
    /\ user_data \in UserPool

\* A call returns: it becomes the last call and the session's history grows
Record(o, a, r) ==
    /\ op' = o
    /\ args' = a
    /\ result' = r
    /\ history' = Append(history, [op |-> o, args |-> a, result |-> r])

SessionScore ==
    /\ Len(history) < MaxCalls
    /\ \E i \in 1..Len(dishes), t \in SessionTargets :
        Record("calculate_comprehensive_score",
               [dish |-> dishes[i], target_calories |-> t[1], target_protein |-> t[2]],
               calculate_comprehensive_score(dishes[i], user_data, t[1], t[2]))
    /\ UNCHANGED <<splitVars, handlerVars, inputVars, planVars, requestVars>>

SessionFilter ==
    /\ Len(history) < MaxCalls
    /\ Record("filter_dishes_by_constraints", EmptyDict,
              filter_dishes_by_constraints(dishes, user_data))
    /\ UNCHANGED <<splitVars, handlerVars, inputVars, planVars, requestVars>>

SessionGetOptimal ==
    /\ Len(history) < MaxCalls
    /\ \E mt \in SessionMealTypes, t \in SessionTargets :
        \E chosen \in get_optimal_dish(dishes, user_data, mt, t[1], t[2]) :
            Record("get_optimal_dish",
                   [meal_type |-> mt, target_calories |-> t[1], target_protein |-> t[2]],
                   chosen)
    /\ UNCHANGED <<splitVars, handlerVars, inputVars, planVars, requestVars>>

SessionFindBest ==
    /\ Len(history) < MaxCalls
    /\ \E chosen \in find_best_dish(dishes, user_data) :
        Record("find_best_dish", EmptyDict, chosen)
    /\ UNCHANGED <<splitVars, handlerVars, inputVars, planVars, requestVars>>

(***************************************************************************)
(* api.py: AIEnhancedMealPlannerService.generate_meal_plan                 *)
(***************************************************************************)
\* The calorie totals the model plans for: the scenario's and an invalid one
PlanTargets == {1883, 0}

\* A catalog entry whose allergy_risks is null. The record leaves the key
\* out (a record of the model holds a list or nothing there) and
\* NullAllergyRisks names the entry.
Khichdi ==
    [name |-> "Khichdi",
     meal_type |-> "lunch",
     calories |-> 380,
     protein_grams |-> 12,
     diet_tags |-> <<"vegetarian">>,
     region |-> "north"]

NullAllergyRisks == {Khichdi}

\* _has_allergy_conflict iterates dish.get("allergy_risks", []): a TypeError
\* when it is null, at the first such dish of the list, whatever the user.
\* filter_dishes_by_constraints and find_best_dish let it through.
filter_raises(dish_list) ==
    \E i \in 1..Len(dish_list) : dish_list[i] \in NullAllergyRisks

\* The catalogs with the null entry
FaultyCatalogs ==
    {<<Khichdi>>, <<Poha, Khichdi, FishCurry>>, <<DalRice, Khichdi>>,
     <<EggBhurji, Khichdi, Chikki>>}

\* A user whose cadence split_calories does not know
GrazerUser ==
    [age |-> 35,
     gender |-> "Female",
     height_cm |-> 165,
     weight_kg |-> 65,
     primary_goal |-> "Maintenance",
     lifestyle_type |-> "active",
     dietary_strictness |-> "vegetarian",
     Meal_Frequency |-> "6 small meals"]

\* More breakfast dishes, for a slot with more candidates than a pick looks at
Idli ==
    [name |-> "Idli",
     meal_type |-> "breakfast",
     calories |-> 180,
     protein_grams |-> 5,
     diet_tags |-> <<"vegetarian", "vegan">>,
     allergy_risks |-> <<>>,
     region |-> "south"]

Dosa ==
    [name |-> "Dosa",
     meal_type |-> "breakfast",
     calories |-> 300,
     protein_grams |-> 7,
     diet_tags |-> <<"vegetarian">>,
     allergy_risks |-> <<>>,
     region |-> "south",
     attribute_rankings |-> [health_suitability |-> [maintenance |-> 2]]]

Paratha ==
    [name |-> "Paratha",
     meal_type |-> "breakfast",
     calories |-> 350,
     protein_grams |-> 9,
     diet_tags |-> <<"vegetarian", "dairy">>,
     allergy_risks |-> <<"gluten">>,
     region |-> "north"]

\* A catalog with five breakfast dishes
RankedCatalogs == {<<Poha, EggBhurji, Idli, Dosa, Paratha>>}

\* A catalog entry whose cultural_significance is null: the key is left out
\* of the record and NullCulturalSignificance names the entry
Upma ==
    [name |-> "Upma",
     meal_type |-> "dinner",
     calories |-> 220,
     protein_grams |-> 6,
     diet_tags |-> <<"vegetarian", "vegan">>,
     allergy_risks |-> <<>>,
     region |-> "south"]

NullCulturalSignificance == {Upma}

\* The catalogs with the entry that has no description text
UndescribedCatalogs == {<<Upma>>, <<Poha, Upma>>, <<Upma, FishCurry, Chikki>>}

PlanInputInit ==
    /\ dishes \in Catalogs \cup FaultyCatalogs \cup RankedCatalogs
                    \cup UndescribedCatalogs
    /\ user_data \in UserPool \cup {GrazerUser}

\* The order in which a dict of split_calories is iterated
SlotOrder(d) ==
    IF "snack_1" \in DOMAIN d
        THEN <<"breakfast", "lunch", "dinner", "snack_1", "snack_2">>
        ELSE <<"breakfast", "lunch", "dinner">>

\* normalize_user_data: the copy with BMI (as <<numerator, denominator>>),
\* BMR (times 4) and the default Meal_Frequency added. The model's profiles
\* hold lists in their list fields, which are kept.
normalize_user_data(user) ==
    LET calculated ==
            [BMI |-> <<user.weight_kg * 10000, user.height_cm * user.height_cm>>,
             BMR |-> calculate_bmr(user.weight_kg, user.height_cm, user.age,
                                   user.gender)]
        frequency ==
            IF "Meal_Frequency" \in DOMAIN user THEN EmptyDict
            ELSE [Meal_Frequency |-> "3 meals + 2 snacks"]
    IN  calculated @@ frequency @@ user

\* What self.generator(prompt) can do
GeneratorOutcomes == {"text", "no valid output", "empty text", "raises"}

GeneratedText == "<generated text>"

\* meal_name.replace('_', ' ')
SlotLabel(meal_name) == Replace(meal_name, "_", " ")

\* get_fallback_description for a dish that is a non-empty dict
get_fallback_description(meal_name, best_dish) ==
    Get(best_dish, "cultural_significance",
        Get(best_dish, "name", "Recommended " \o SlotLabel(meal_name)))

\* new_prompt_builder.build_prompt: the prompt reads dish["name"] and
\* dish["calories"], a KeyError when the dish lacks one; everything else is
\* read with a default. The text of the prompt is not modelled.
build_prompt(dish) ==
    IF "name" \notin DOMAIN dish \/ "calories" \notin DOMAIN dish
        THEN Raised("KeyError")
        ELSE Returned("<prompt>")

\* generate_ai_meal_description, given what the generator does
generate_ai_meal_description(loaded, outcome, meal_name, best_dish) ==
    IF ~loaded THEN get_fallback_description(meal_name, best_dish)
    ELSE IF build_prompt(best_dish).raised # ""
        THEN get_fallback_description(meal_name, best_dish)
    ELSE IF outcome = "text" THEN GeneratedText
    ELSE get_fallback_description(meal_name, best_dish)

\* Whether generate_ai_meal_description returned get_fallback_description
uses_fallback(loaded, outcome, best_dish) ==
    \/ ~loaded
    \/ build_prompt(best_dish).raised # ""
    \/ outcome # "text"

\* Lines 396-398: the log line slices ai_description[:100], a TypeError when
\* the description is the dish's null cultural_significance
log_raises(loaded, outcome, best_dish) ==
    /\ uses_fallback(loaded, outcome, best_dish)
    /\ best_dish \in NullCulturalSignificance

\* The fallback the except branch returns (lines 409-430)
fallback_plan ==
    [breakfast |-> "Balanced breakfast with whole grains, protein, and fresh fruits",
     lunch |-> "Nutritious lunch with lean protein, vegetables, and complex carbohydrates",
     dinner |-> "Wholesome dinner with quality protein, vegetables, and healthy fats",
     snack_1 |-> "Healthy mid-morning snack with protein and fiber",
     snack_2 |-> "Light evening snack to maintain energy levels"]

fallback_calories(target) ==
    [breakfast |-> Floor(target, 4),
     lunch |-> Trunc(target * 35, 100),
     dinner |-> Trunc(target * 3, 10),
     snack_1 |-> Floor(target, 10),
     snack_2 |-> Floor(target, 20)]

fallback_proteins ==
    [breakfast |-> 15, lunch |-> 25, dinner |-> 20, snack_1 |-> 5, snack_2 |-> 3]

\* d[k] = v
Store(d, k, v) == (k :> v) @@ d

\* One call of generate_meal_plan at a time: nothing is suspended
OneCall ==
    /\ current = 1
    /\ suspended = EmptyDict

PlanInit ==
    /\ plan_target \in PlanTargets
    /\ model_loaded \in BOOLEAN
    /\ ppc = "call"
    /\ pending = <<>>
    /\ meal_calories = EmptyDict
    /\ best_dishes = EmptyDict
    /\ formatted_plan = EmptyDict
    /\ actual_calories = EmptyDict
    /\ actual_proteins = EmptyDict
    /\ returned = ""
    /\ failed_slot = ""
    /\ protein_targets = EmptyDict
    /\ OneCall

PlanIdle ==
    /\ plan_target = 0
    /\ model_loaded = FALSE
    /\ ppc = "off"
    /\ pending = <<>>
    /\ meal_calories = EmptyDict
    /\ best_dishes = EmptyDict
    /\ formatted_plan = EmptyDict
    /\ actual_calories = EmptyDict
    /\ actual_proteins = EmptyDict
    /\ returned = ""
    /\ failed_slot = ""
    /\ protein_targets = EmptyDict
    /\ OneCall

\* Lines 333-344: normalize, split the calories; a ValueError of
\* split_calories is caught by the except branch, which returns the fallback
PlanStart ==
    /\ ppc = "call"
    /\ LET normalized_user_data == normalize_user_data(user_data)
           meal_freq == Get(normalized_user_data, "Meal_Frequency",
                            "3 meals + 2 snacks")
           split == split_calories(plan_target, meal_freq)
       IN  IF split.raised # ""
            THEN /\ formatted_plan' = fallback_plan
                 /\ actual_calories' = fallback_calories(plan_target)
                 /\ actual_proteins' = fallback_proteins
                 /\ returned' = "fallback"
                 /\ ppc' = "done"
                 /\ UNCHANGED <<pending, meal_calories>>
            ELSE /\ meal_calories' = split.value
                 /\ pending' = SlotOrder(split.value)
                 /\ ppc' = "slots"
                 /\ UNCHANGED <<formatted_plan, actual_calories, actual_proteins,
                                returned>>
    /\ UNCHANGED <<plan_target, model_loaded, best_dishes, failed_slot,
                   protein_targets>>
    /\ UNCHANGED <<splitVars, handlerVars, inputVars, callVars, requestVars>>

\* Lines 346-398: one iteration of the loop over meal_calories. An exception
\* of find_best_dish leaves the loop for the except branch (lines 406-430),
\* which returns the fallback in place of what the loop has built.
PlanSlot ==
    /\ ppc = "slots"
    /\ pending # <<>>
    /\ LET meal_name == Head(pending)
           kcal == meal_calories[meal_name]
           normalized_user_data == normalize_user_data(user_data)
           dish_type == IF StartsWith(meal_name, "snack") THEN "snack" ELSE meal_name
           OfType(dish) == "meal_type" \in DOMAIN dish /\ dish.meal_type = dish_type
           filtered_dishes == SelectSeq(dishes, OfType)
           survivors ==
                filter_dishes_by_constraints(filtered_dishes, normalized_user_data)
           \* find_best_dish scores when a dish survives its filter
           Scoring ==
                protein_targets' =
                    IF survivors = <<>> THEN protein_targets
                    ELSE Store(protein_targets, meal_name,
                               find_best_target_protein(normalized_user_data))
           Continue ==
                /\ pending' = Tail(pending)
                /\ UNCHANGED <<ppc, returned, failed_slot>>
           Placeholder(text, best) ==
                /\ formatted_plan' = Store(formatted_plan, meal_name, text)
                /\ actual_calories' = Store(actual_calories, meal_name, 0)
                /\ actual_proteins' = Store(actual_proteins, meal_name, 0)
                /\ best_dishes' = Store(best_dishes, meal_name, best)
                /\ Continue
       IN  IF filtered_dishes = <<>>
            THEN /\ Placeholder("No suitable " \o SlotLabel(meal_name)
                                    \o " available", None)
                 /\ UNCHANGED protein_targets
            ELSE IF filter_raises(filtered_dishes)
            THEN /\ UNCHANGED protein_targets
                 /\ formatted_plan' = fallback_plan
                 /\ actual_calories' = fallback_calories(plan_target)
                 /\ actual_proteins' = fallback_proteins
                 /\ returned' = "fallback"
                 /\ failed_slot' = meal_name
                 /\ ppc' = "done"
                 /\ UNCHANGED <<pending, best_dishes>>
            ELSE \E best_dish \in find_best_dish(filtered_dishes, normalized_user_data) :
                   IF best_dish = None \/ best_dish = EmptyDict
                    THEN /\ Placeholder("No suitable " \o SlotLabel(meal_name)
                                            \o " found for your preferences", best_dish)
                         /\ Scoring
                    ELSE \E outcome \in GeneratorOutcomes :
                         IF log_raises(model_loaded, outcome, best_dish)
                          THEN /\ Scoring
                               /\ formatted_plan' = fallback_plan
                               /\ actual_calories' = fallback_calories(plan_target)
                               /\ actual_proteins' = fallback_proteins
                               /\ best_dishes' = Store(best_dishes, meal_name, best_dish)
                               /\ returned' = "fallback"
                               /\ failed_slot' = meal_name
                               /\ ppc' = "done"
                               /\ UNCHANGED pending
                          ELSE
                           /\ Scoring
                           /\ formatted_plan' = Store(formatted_plan, meal_name,
                                generate_ai_meal_description(model_loaded, outcome,
                                                             meal_name, best_dish))
                           /\ actual_calories' = Store(actual_calories, meal_name,
                                Get(best_dish, "calories", kcal))
                           /\ actual_proteins' = Store(actual_proteins, meal_name,
                                Get(best_dish, "protein_grams", 0))
                           /\ best_dishes' = Store(best_dishes, meal_name, best_dish)
                           /\ Continue
    /\ UNCHANGED <<plan_target, model_loaded, meal_calories>>
    /\ UNCHANGED <<splitVars, handlerVars, inputVars, callVars, requestVars>>

\* Lines 400-404: the loop is over, the three dicts are returned
PlanReturn ==
    /\ ppc = "slots"
    /\ pending = <<>>
    /\ ppc' = "done"
    /\ returned' = "plan"
    /\ UNCHANGED <<plan_target, model_loaded, pending, meal_calories, failed_slot,
                   protein_targets,
                   best_dishes, formatted_plan, actual_calories, actual_proteins>>
    /\ UNCHANGED <<splitVars, handlerVars, inputVars, callVars, requestVars>>

(***************************************************************************)
(* api.py: generate_meal_plan as a function of its inputs                  *)
(***************************************************************************)
\* What generate_meal_plan returns: the three dicts, and by which return
PlanResult(kind, plan, calories, proteins) ==
    [returned |-> kind, formatted_plan |-> plan,
     actual_calories |-> calories, actual_proteins |-> proteins]

\* Lines 406-430: the except branch
FallbackResult(target) ==
    PlanResult("fallback", fallback_plan, fallback_calories(target),
               fallback_proteins)

\* Lines 346-398: what one iteration of the loop can write for its slot, or
\* that it raised
SlotOutcomes(catalog, loaded, normalized_user_data, meal_name, kcal) ==
    LET dish_type == IF StartsWith(meal_name, "snack") THEN "snack" ELSE meal_name
        OfType(dish) == "meal_type" \in DOMAIN dish /\ dish.meal_type = dish_type
        filtered_dishes == SelectSeq(catalog, OfType)
        Raises == [raised |-> TRUE, text |-> "", calories |-> 0, protein |-> 0]
        Writes(text, calories, protein) ==
            [raised |-> FALSE, text |-> text, calories |-> calories,
             protein |-> protein]
        Descriptions(best_dish) ==
            {IF log_raises(loaded, outcome, best_dish)
                THEN Raises
                ELSE Writes(generate_ai_meal_description(loaded, outcome,
                                                         meal_name, best_dish),
                            Get(best_dish, "calories", kcal),
                            Get(best_dish, "protein_grams", 0)) :
             outcome \in GeneratorOutcomes}
    IN  IF filtered_dishes = <<>>
         THEN {Writes("No suitable " \o SlotLabel(meal_name) \o " available", 0, 0)}
        ELSE IF filter_raises(filtered_dishes)
         THEN {Raises}
        ELSE UNION {IF best_dish = None \/ best_dish = EmptyDict
                     THEN {Writes("No suitable " \o SlotLabel(meal_name)
                                      \o " found for your preferences", 0, 0)}
                     ELSE Descriptions(best_dish) :
                    best_dish \in find_best_dish(filtered_dishes,
                                                 normalized_user_data)}

\* The loop from the slots that are left, given what is written so far
RECURSIVE PlanLoop(_, _, _)
PlanLoop(call, slots, written) ==
    IF slots = <<>>
        THEN {PlanResult("plan", written.formatted_plan, written.actual_calories,
                         written.actual_proteins)}
        ELSE UNION {IF o.raised
                     THEN {FallbackResult(call.target_calories)}
                     ELSE PlanLoop(call, Tail(slots),
                            [formatted_plan |->
                                Store(written.formatted_plan, Head(slots), o.text),
                             actual_calories |->
                                Store(written.actual_calories, Head(slots), o.calories),
                             actual_proteins |->
                                Store(written.actual_proteins, Head(slots), o.protein)]) :
                    o \in SlotOutcomes(call.catalog, call.loaded,
                                       call.normalized_user_data, Head(slots),
                                       call.meal_calories[Head(slots)])}

\* generate_meal_plan(user_data, target_calories) on a service with this
\* catalog and this model: every result the call can return
generate_meal_plan(catalog, loaded, user, target) ==
    LET normalized_user_data == normalize_user_data(user)
        meal_freq == Get(normalized_user_data, "Meal_Frequency",
                         "3 meals + 2 snacks")
        split == split_calories(target, meal_freq)
    IN  IF split.raised # ""
         THEN {FallbackResult(target)}
         ELSE PlanLoop([catalog |-> catalog, loaded |-> loaded,
                        normalized_user_data |-> normalized_user_data,
                        target_calories |-> target,
                        meal_calories |-> split.value],
                       SlotOrder(split.value),
                       [formatted_plan |-> EmptyDict, actual_calories |-> EmptyDict,
                        actual_proteins |-> EmptyDict])

(***************************************************************************)
(* api.py: several calls of generate_meal_plan on the one meal_service     *)
(***************************************************************************)
\* How many requests are served at once
MaxRequests == 2

\* A vegetarian who takes three meals
VegetarianUser ==
    [age |-> 28,
     gender |-> "Female",
     height_cm |-> 162,
     weight_kg |-> 55,
     primary_goal |-> "Maintenance",
     lifestyle_type |-> "sedentary",
     dietary_strictness |-> "vegetarian",
     Meal_Frequency |-> "3 meals"]

\* The requests: a profile and its calorie total
RequestPool ==
    {[user_data |-> VegetarianUser, target_calories |-> 1883],
     [user_data |-> OmnivoreUser, target_calories |-> 1600]}

\* The catalogs the service has loaded
SharedCatalogs == {<<Poha, Idli>>, <<Upma>>}

\* The locals of the running call, its arguments included
Locals ==
    [user_data |-> user_data, plan_target |-> plan_target, ppc |-> ppc,
     pending |-> pending, meal_calories |-> meal_calories,
     best_dishes |-> best_dishes, formatted_plan |-> formatted_plan,
     actual_calories |-> actual_calories, actual_proteins |-> actual_proteins,
     returned |-> returned, failed_slot |-> failed_slot,
     protein_targets |-> protein_targets]

\* The locals of a call that has not run yet
NewCall(request) ==
    [user_data |-> request.user_data, plan_target |-> request.target_calories,
     ppc |-> "call", pending |-> <<>>, meal_calories |-> EmptyDict,
     best_dishes |-> EmptyDict, formatted_plan |-> EmptyDict,
     actual_calories |-> EmptyDict, actual_proteins |-> EmptyDict,
     returned |-> "", failed_slot |-> "", protein_targets |-> EmptyDict]

\* A variant in which the three dicts are the service's, not the call's
Resume_DictsOfTheService(frame, running) ==
    [frame EXCEPT !.formatted_plan = running.formatted_plan,
                  !.actual_calories = running.actual_calories,
                  !.actual_proteins = running.actual_proteins]

\* Lines 342-344: formatted_plan, actual_calories and actual_proteins are
\* created by the call, so a call that goes on finds its own, whatever the
\* call that ran meanwhile has written
Resume(frame, running) == frame

RequestsInit ==
    /\ dishes \in SharedCatalogs
    /\ model_loaded \in BOOLEAN
    /\ \E arrived \in [1..MaxRequests -> RequestPool] :
        /\ current = 1
        /\ suspended = [r \in 2..MaxRequests |-> NewCall(arrived[r])]
        /\ user_data = arrived[1].user_data
        /\ plan_target = arrived[1].target_calories
    /\ ppc = "call"
    /\ pending = <<>>
    /\ meal_calories = EmptyDict
    /\ best_dishes = EmptyDict
    /\ formatted_plan = EmptyDict
    /\ actual_calories = EmptyDict
    /\ actual_proteins = EmptyDict
    /\ returned = ""
    /\ failed_slot = ""
    /\ protein_targets = EmptyDict

\* The running call stops between two steps and call r goes on (or starts)
Switch ==
    \E r \in DOMAIN suspended :
    /\ LET frame == Resume(suspended[r], Locals)
       IN  /\ user_data' = frame.user_data
           /\ plan_target' = frame.plan_target
           /\ ppc' = frame.ppc
           /\ pending' = frame.pending
           /\ meal_calories' = frame.meal_calories
           /\ best_dishes' = frame.best_dishes
           /\ formatted_plan' = frame.formatted_plan
           /\ actual_calories' = frame.actual_calories
           /\ actual_proteins' = frame.actual_proteins
           /\ returned' = frame.returned
           /\ failed_slot' = frame.failed_slot
           /\ protein_targets' = frame.protein_targets
    /\ suspended' = [q \in (DOMAIN suspended \ {r}) \cup {current} |->
                        IF q = current THEN Locals ELSE suspended[q]]
    /\ current' = r
    /\ UNCHANGED <<dishes, model_loaded>>
    /\ UNCHANGED <<splitVars, handlerVars, callVars>>

(***************************************************************************)
(* One call of get_best_dishes_by_meal_type                                *)
(***************************************************************************)
\* The longest list the ranking is called with
MaxRanked == 3

\* Three breakfast dishes and a snack
RankingPool == {Poha, Idli, Paratha, Chikki}

RankingCatalogs == UNION {[1..n -> RankingPool] : n \in 0..MaxRanked}

\* The meal_type and top_n arguments of the model (5 is the default)
RankingMealTypes == {"Breakfast", "snack"}
TopNs == {2, 5}

RankingInit ==
    /\ dishes \in RankingCatalogs
    /\ user_data \in UserPool

CallGetBest ==
    /\ op = ""
    /\ \E mt \in RankingMealTypes, tc \in TargetCalories, tp \in TargetProteins,
          top_n \in TopNs :
        /\ args' = [meal_type |-> mt, target_calories |-> tc, target_protein |-> tp,
                    top_n |-> top_n]
        /\ result' = get_best_dishes_by_meal_type(dishes, user_data, mt, tc, tp, top_n)
    /\ op' = "get_best_dishes_by_meal_type"
    /\ UNCHANGED <<history, splitVars, handlerVars, inputVars, planVars, requestVars>>

(***************************************************************************)
(* One call of the scorer for the protein factor                           *)
(***************************************************************************)
\* The most protein of a dish of the model, in grams
MaxProtein == 30

\* Poha with every protein content, and a dish that states none
ProteinDishes ==
    {[Poha EXCEPT !.protein_grams = p] : p \in 0..MaxProtein}
        \cup {[name |-> "Plain Rice", meal_type |-> "lunch"]}

\* target_protein: none, 12.5 g, 15 g and 21 g, in ten-thousandths of a gram
ProteinTargets == {0, 125000, 150000, 210000}

ProteinInit ==
    /\ \E dish \in ProteinDishes : dishes = <<dish>>
    /\ user_data \in {BareUser, ScenarioUser}

\* _calculate_protein_score(dish, target_protein)
CallProteinScore ==
    /\ op = ""
    /\ \E tp \in ProteinTargets :
        /\ args' = [dish |-> dishes[1], target_calories |-> 0, target_protein |-> tp]
        /\ result' = calculate_protein_score(dishes[1], tp)
    /\ op' = "_calculate_protein_score"
    /\ UNCHANGED <<history, splitVars, handlerVars, inputVars, planVars, requestVars>>

\* calculate_comprehensive_score(dish, user_data, target_calories, target_protein)
CallScoreWithProtein ==
    /\ op = ""
    /\ \E tc \in TargetCalories, tp \in ProteinTargets :
        /\ args' = [dish |-> dishes[1], target_calories |-> tc, target_protein |-> tp]
        /\ result' = calculate_comprehensive_score(dishes[1], user_data, tc, tp)
    /\ op' = "calculate_comprehensive_score"
    /\ UNCHANGED <<history, splitVars, handlerVars, inputVars, planVars, requestVars>>

(***************************************************************************)
(* Specifications                                                         *)
(***************************************************************************)
\* split_calories called once with any total and cadence of the model
InitSplit == SplitInit /\ HandlerIdle /\ InputIdle /\ CallIdle /\ PlanIdle

NextSplit == CallSplit

SpecSplit == InitSplit /\ [][NextSplit]_vars

\* One request's caloric target
InitHandler == HandlerInit /\ SplitIdle /\ InputIdle /\ CallIdle /\ PlanIdle

NextHandler == ComputeCaloricTarget

SpecHandler == InitHandler /\ [][NextHandler]_vars

\* One call of the filter, the scorer or a selector on any catalog and user
InitCall == InputInit /\ CallInit /\ SplitIdle /\ HandlerIdle /\ PlanIdle

NextCall == CallFilter \/ CallScore \/ CallGetOptimal \/ CallFindBest

SpecCall == InitCall /\ [][NextCall]_vars

\* One run of generate_meal_plan on any catalog and user
InitPlan == PlanInputInit /\ PlanInit /\ SplitIdle /\ HandlerIdle /\ CallIdle

NextPlan == PlanStart \/ PlanSlot \/ PlanReturn

SpecPlan == InitPlan /\ [][NextPlan]_vars

\* One call of calculate_user_protein_needs on any profile of the model
InitNeeds == NeedsInit /\ CallInit /\ SplitIdle /\ HandlerIdle /\ PlanIdle

NextNeeds == CallProteinNeeds

SpecNeeds == InitNeeds /\ [][NextNeeds]_vars

\* Up to MaxCalls calls of one DishFilter on one catalog and user
InitSession == SessionInit /\ CallInit /\ SplitIdle /\ HandlerIdle /\ PlanIdle

NextSession == SessionScore \/ SessionFilter \/ SessionGetOptimal \/ SessionFindBest

SpecSession == InitSession /\ [][NextSession]_vars

\* The scorer called once for a dish of every protein content
InitProtein == ProteinInit /\ CallInit /\ SplitIdle /\ HandlerIdle /\ PlanIdle

NextProtein == CallProteinScore \/ CallScoreWithProtein

SpecProtein == InitProtein /\ [][NextProtein]_vars

\* get_best_dishes_by_meal_type called once
InitRank == RankingInit /\ CallInit /\ SplitIdle /\ HandlerIdle /\ PlanIdle

NextRank == CallGetBest

SpecRank == InitRank /\ [][NextRank]_vars

\* Several requests on the one service, their calls interleaved step by step
InitRequests == RequestsInit /\ SplitIdle /\ HandlerIdle /\ CallIdle

NextRequests == PlanStart \/ PlanSlot \/ PlanReturn \/ Switch

SpecRequests == InitRequests /\ [][NextRequests]_vars

(***************************************************************************)
(* Claims about split_calories (checked under SpecSplit)                   *)
(***************************************************************************)
SplitReturned == spc = "done" /\ calorie_distribution.raised = ""

Dist == calorie_distribution.value

SlotSum(d) ==
    d["breakfast"] + d["lunch"] + d["dinner"]
        + (IF "snack_1" \in DOMAIN d THEN d["snack_1"] + d["snack_2"] ELSE 0)

\* C3: for every total T > 0 and cadence "3 meals + 2 snacks" the returned
\* snack_1 equals snack_2 and the sum of the five slot values is within
\* 20 kcal of T.
C3_SnacksEqualSumWithin20 ==
    (spc = "done" /\ total_calories > 0 /\ meal_frequency = "3 meals + 2 snacks")
        => /\ DOMAIN Dist =
                {"breakfast", "lunch", "dinner", "snack_1", "snack_2"}
           /\ Dist["snack_1"] = Dist["snack_2"]
           /\ Abs(SlotSum(Dist) - total_calories) <= 20

\* C3 witness: a split with snacks whose sum differs from the total
C3_Witness ==
    /\ SplitReturned
    /\ meal_frequency = "3 meals + 2 snacks"
    /\ Dist["snack_1"] > 0
    /\ SlotSum(Dist) # total_calories

\* C4 (as claimed): for every total T > 0 and cadence "3 meals" breakfast,
\* lunch and dinner are multiples of 10 and their sum is within 20 kcal of T.
C4_ThreeMealsSumWithin20 ==
    (spc = "done" /\ total_calories > 0 /\ meal_frequency = "3 meals")
        => /\ \A m \in {"breakfast", "lunch", "dinner"} :
                Dist[m] % 10 = 0
           /\ Abs(SlotSum(Dist) - total_calories) <= 20

\* C5: split_calories raises ValueError exactly when the total is not
\* positive or the cadence is neither "3 meals" nor "3 meals + 2 snacks";
\* otherwise it returns a distribution.
C5_ValueErrorExactlyOnInvalidInput ==
    spc = "done" =>
        IF total_calories <= 0
              \/ (meal_frequency # "3 meals" /\ meal_frequency # "3 meals + 2 snacks")
            THEN calorie_distribution.raised = "ValueError"
            ELSE /\ calorie_distribution.raised = ""
                 /\ {"breakfast", "lunch", "dinner"} \subseteq DOMAIN Dist

\* C5 witness: a positive total with an unrecognized cadence was refused
C5_Witness ==
    /\ spc = "done"
    /\ total_calories > 0
    /\ meal_frequency = "3 Meals"
    /\ calorie_distribution.raised = "ValueError"

\* C6 (as claimed): 1883 kcal with "3 meals + 2 snacks" gives breakfast 520,
\* lunch 610, dinner 520 and snack_1 = snack_2 = 115, summing to 1880.
C6_Scenario115 ==
    (spc = "done" /\ total_calories = 1883 /\ meal_frequency = "3 meals + 2 snacks")
        => /\ Dist =
                [m \in {"breakfast", "lunch", "dinner", "snack_1", "snack_2"} |->
                    CASE m = "breakfast" -> 520 [] m = "lunch" -> 610
                      [] m = "dinner" -> 520 [] OTHER -> 115]
           /\ SlotSum(Dist) = 1880

\* C6 (amended): 1883 kcal with "3 meals + 2 snacks" gives breakfast 520,
\* lunch 610, dinner 520 and snack_1 = snack_2 = 120 (the residual 233 halved
\* and rounded to the nearest 10), summing to 1890.
C6_Scenario120 ==
    (spc = "done" /\ total_calories = 1883 /\ meal_frequency = "3 meals + 2 snacks")
        => /\ Dist =
                [m \in {"breakfast", "lunch", "dinner", "snack_1", "snack_2"} |->
                    CASE m = "breakfast" -> 520 [] m = "lunch" -> 610
                      [] m = "dinner" -> 520 [] OTHER -> 120]
           /\ SlotSum(Dist) = 1890

\* C6 witness: the scenario's split has been computed
C6_Witness ==
    /\ SplitReturned
    /\ total_calories = 1883
    /\ meal_frequency = "3 meals + 2 snacks"

(***************************************************************************)
(* Claims about the caloric target (checked under SpecHandler)             *)
(***************************************************************************)
ScenarioPerson ==
    [weight_kg |-> 70, height_cm |-> 175, age |-> 30, gender |-> "Male",
     lifestyle_type |-> "sedentary", primary_goal |-> "Maintenance"]

\* C7 (as claimed): for the scenario user the caloric target computed by the
\* request handler is 1883 kcal.
C7_ScenarioTarget1883 ==
    (hpc = "done" /\ person = ScenarioPerson) => adjusted_calories = 1883

\* C7 (amended): for the scenario user the BMR is 1648.75, the rounded
\* product with the activity factor 1.2 is 1978, and the caloric target
\* after the goal adjustment 1.0 is 1978 kcal.
C7_ScenarioTarget1978 ==
    (hpc = "done" /\ person = ScenarioPerson)
        => /\ bmr4 = 6595
           /\ caloric_intake = 1978
           /\ adjusted_calories = 1978

\* C7 witness: the scenario user's request has been handled
C7_Witness == hpc = "done" /\ person = ScenarioPerson

\* The integers a single round() of n / d can give: the nearest one, either
\* neighbour when n / d is a tie (the binary64 product may fall on either
\* side of it)
SingleRounding(n, d) ==
    IF IsTie(n, d) THEN {Floor(n, d), Floor(n, d) + 1} ELSE {PyRound(n, d)}

\* C8 (as claimed): the caloric target equals round(bmr * activity_factor *
\* goal_adjustment), one rounding of the full product, with goal_adjustment
\* 0.85, 1.15, 1.0, 1.1 for Weight Loss, Muscle Gain, Maintenance, Recovery
\* and 1.0 for every other goal.
C8_SingleRoundingOfProduct ==
    hpc = "done" =>
        LET g == person.primary_goal
            adj == IF g = "Weight Loss" THEN 85
                   ELSE IF g = "Muscle Gain" THEN 115
                   ELSE IF g = "Recovery" THEN 110
                   ELSE 100
            ls == person.lifestyle_type
            af == IF ls = "active" THEN 1550
                  ELSE IF ls = "athletic" THEN 1725
                  ELSE 1200
        IN  adjusted_calories \in SingleRounding(bmr4 * af * adj, 400000)

(***************************************************************************)
(* Claims about the constraint filter, the scorer and the selectors        *)
(***************************************************************************)
\* The strings of a list, lowercased and otherwise as they are
Lowered(list) == {Lower(a) : a \in Elements(list)}

\* The dish's allergy_risks and the user's known_allergies share an element
\* when compared case-insensitively
SharesAllergen(dish, user) ==
    Lowered(Get(dish, "allergy_risks", <<>>))
        \cap Lowered(Get(user, "known_allergies", <<>>)) # {}

\* C1: filter_dishes_by_constraints never returns a dish whose allergy_risks,
\* compared case-insensitively, share an element with the user's
\* known_allergies, whatever the catalog and the user
C1_NoSharedAllergenReturned ==
    op = "filter_dishes_by_constraints" =>
        \A i \in 1..Len(result) : ~SharesAllergen(result[i], user_data)

\* No value of the user's normalized preferences is found in the dish's
\* attribute_rankings
NoPreferenceFound(dish, user) ==
    LET rankings == Get(dish, "attribute_rankings", EmptyDict)
        prefs == normalize_user_preferences(user)
    IN  \A pk \in DOMAIN prefs :
            ~(pk \in DOMAIN rankings /\ prefs[pk] \in DOMAIN rankings[pk])

\* No persona tag of the user is one of the dish's
NoPersonaMatch(dish, user) ==
    Elements(Get(user, "persona_tags", <<>>))
        \cap Elements(Get(dish, "persona_tags", <<>>)) = {}

\* No suitability tag of the dish contains a preferred time of the user that
\* names a daytime bucket
NoTimingMatch(dish, user) ==
    \A t \in Elements(Get(dish, "time_of_day_suitability", <<>>)),
       time \in Elements(Get(user, "preferred_meal_times", <<>>)) :
        ~(Lower(time) \in DOMAIN meal_type_mapping /\ Contains(Lower(t), Lower(time)))

\* The user's dietary_strictness is no diet tag of the dish and no diet tag
\* of the dish conflicts with it
NoDietaryMatchOrConflict(dish, user) ==
    LET tags == Lowered(Get(dish, "diet_tags", <<>>))
        user_dietary == Lower(Get(user, "dietary_strictness", ""))
    IN  /\ user_dietary \notin tags
        /\ user_dietary \in DOMAIN dietary_conflicts =>
                Elements(dietary_conflicts[user_dietary]) \cap tags = {}

\* The caloric factor is skipped: no target calories or no caloric_density
\* table
CaloricSkipped(dish, calories) ==
    calories = 0
        \/ "caloric_density" \notin DOMAIN Get(dish, "attribute_rankings", EmptyDict)

Scored == op = "calculate_comprehensive_score"

\* C9, as stated: the score is exactly 0 whenever no preference value is found
\* in attribute_rankings, the protein target is 0 or absent, the allergens do
\* not intersect the allergies, and there is no persona and no timing match
C9_ZeroScoreAsStated ==
    (/\ Scored
     /\ NoPreferenceFound(args.dish, user_data)
     /\ args.target_protein = 0
     /\ ~SharesAllergen(args.dish, user_data)
     /\ NoPersonaMatch(args.dish, user_data)
     /\ NoTimingMatch(args.dish, user_data))
        => result = 0

\* C9, amended: the score is exactly 0 whenever, besides, the caloric factor
\* is skipped, the dietary_strictness neither matches nor conflicts with the
\* diet tags, and the allergens (lowercased) do not intersect the allergies
\* as the scorer reads them (stripped and lowercased)
C9_ZeroScore ==
    (/\ Scored
     /\ NoPreferenceFound(args.dish, user_data)
     /\ CaloricSkipped(args.dish, args.target_calories)
     /\ args.target_protein = 0
     /\ NoDietaryMatchOrConflict(args.dish, user_data)
     /\ UserAllergies(user_data) \cap DishAllergens(args.dish) = {}
     /\ NoPersonaMatch(args.dish, user_data)
     /\ NoTimingMatch(args.dish, user_data))
        => result = 0

\* A dish with a ranking table, a diet tag and an allergen, scored with a
\* calorie target for a user with preferences, none of which meets the dish's
C9_Witness ==
    /\ Scored
    /\ args.dish = Chikki
    /\ user_data = OmnivoreUser
    /\ args.target_calories # 0
    /\ args.target_protein = 0
    /\ result = 0

\* The dishes that survive the meal-type and the constraint filtering of
\* get_optimal_dish
SurvivorsOfType(meal_type) ==
    LET OfType(dish) == Lower(Get(dish, "meal_type", "")) = Lower(meal_type)
    IN  filter_dishes_by_constraints(SelectSeq(dishes, OfType), user_data)

\* C10: get_optimal_dish and find_best_dish return None when no dish
\* survives the filtering (the empty catalog included) and a surviving dish,
\* never None, when one survives
C10_NoneExactlyWhenNoSurvivor ==
    /\ op = "get_optimal_dish" =>
        IF SurvivorsOfType(args.meal_type) = <<>>
            THEN result = None
            ELSE result \in Elements(SurvivorsOfType(args.meal_type))
    /\ op = "find_best_dish" =>
        IF filter_dishes_by_constraints(dishes, user_data) = <<>>
            THEN result = None
            ELSE result \in Elements(filter_dishes_by_constraints(dishes, user_data))

\* get_optimal_dish on a catalog that has dishes of the meal type, none of
\* which survives the constraints
C10_Witness ==
    /\ op = "get_optimal_dish"
    /\ \E i \in 1..Len(dishes) :
            Lower(Get(dishes[i], "meal_type", "")) = Lower(args.meal_type)
    /\ SurvivorsOfType(args.meal_type) = <<>>
    /\ result = None

(***************************************************************************)
(* Claims about the plan assembly                                          *)
(***************************************************************************)
\* The base type of a slot
BaseType(slot) == IF slot \in {"snack_1", "snack_2"} THEN "snack" ELSE slot

\* The hard constraints of the plan: no shared allergen, no vegan or
\* vegetarian user with a non-vegetarian dish, the user's region when given
ViolatesHardConstraint(dish, user) ==
    \/ SharesAllergen(dish, user)
    \/ /\ Lower(Get(user, "dietary_strictness", "")) \in {"vegan", "vegetarian"}
       /\ "non-vegetarian" \in Lowered(Get(dish, "diet_tags", <<>>))
    \/ /\ Get(user, "Region", "") # ""
       /\ Lower(Get(dish, "region", "")) # Lower(user.Region)

IsPlaceholder(slot) ==
    /\ StartsWith(formatted_plan[slot], "No suitable " \o SlotLabel(slot))
    /\ actual_calories[slot] = 0
    /\ actual_proteins[slot] = 0

\* C2: in a plan returned on the normal path every slot is filled with a
\* dish of the catalog whose meal_type is the slot's base type and which
\* violates no hard constraint, or holds a placeholder
C2_SlotsFilledWithinConstraints ==
    returned = "plan" =>
        \A slot \in DOMAIN formatted_plan :
            IF best_dishes[slot] = None
                THEN IsPlaceholder(slot)
                ELSE /\ best_dishes[slot] \in Elements(dishes)
                     /\ Get(best_dishes[slot], "meal_type", "") = BaseType(slot)
                     /\ ~ViolatesHardConstraint(best_dishes[slot], user_data)

(***************************************************************************)
(* Claims about the protein targets                                        *)
(***************************************************************************)
\* The protein factors and the activity multipliers as the claim lists them,
\* times 10
ClaimedProteinFactor ==
    ("muscle gain" :> 22 @@ "weight loss" :> 16 @@ "recovery" :> 18
        @@ "cardiac" :> 12 @@ "diabetes" :> 12 @@ "maintenance" :> 10
        @@ "medical therapy" :> 14)

ClaimedActivityMultiplier ==
    ("athletic" :> 12 @@ "active" :> 11 @@ "sedentary" :> 10 @@ "elderly" :> 9)

\* weight * factor * multiplier in hundredths of a gram, the goal and the
\* lifestyle looked up under the given keys
ClaimedNeeds(user, goalKey, lifestyleKey) ==
    Get(user, "weight_kg", 70) * Get(ClaimedProteinFactor, goalKey, 10)
        * Get(ClaimedActivityMultiplier, lifestyleKey, 10)

NeedsComputed == op = "calculate_user_protein_needs"

\* C11, as stated: the daily protein need is weight * factor * multiplier,
\* the goal and the lifestyle matched case-insensitively, unknown ones 1.0
C11_NeedsCaseInsensitive ==
    NeedsComputed =>
        result = ClaimedNeeds(user_data,
                              Lower(Get(user_data, "primary_goal", "maintenance")),
                              Lower(Get(user_data, "lifestyle_type", "sedentary")))

\* C11, amended: the goal is matched lowercased with its underscores read as
\* spaces
C11_NeedsUnderscoreAsSpace ==
    NeedsComputed =>
        result = ClaimedNeeds(user_data,
                              Replace(Lower(Get(user_data, "primary_goal", "maintenance")),
                                      "_", " "),
                              Lower(Get(user_data, "lifestyle_type", "sedentary")))

\* The scenario: 70 kg, Maintenance, sedentary gives 70.0 g
C11_Witness ==
    /\ NeedsComputed
    /\ user_data = [weight_kg |-> 70, primary_goal |-> "Maintenance",
                    lifestyle_type |-> "sedentary"]
    /\ result = 7000

(***************************************************************************)
(* Claims about sessions of calls                                          *)
(***************************************************************************)
IsScoring(call) == call.op = "calculate_comprehensive_score"

PlanDone == ppc = "done"

\* What the iteration of a slot recorded for the dish it chose
RecordedAsChosen(slot) ==
    IF best_dishes[slot] = None
        THEN actual_calories[slot] = 0 /\ actual_proteins[slot] = 0
        ELSE /\ actual_calories[slot]
                    = Get(best_dishes[slot], "calories", meal_calories[slot])
             /\ actual_proteins[slot] = Get(best_dishes[slot], "protein_grams", 0)

\* C13: a fault while scoring or selecting for one slot is contained to it:
\* the plan returned has an entry for every allocated slot, the faulty slot
\* is marked as failed (no dish, 0 calories, 0 protein) and the slots worked
\* before it keep the dish, the calories and the protein they had
C13_FaultContainedToSlot ==
    (PlanDone /\ failed_slot # "") =>
        /\ DOMAIN formatted_plan = DOMAIN meal_calories
        /\ actual_calories[failed_slot] = 0
        /\ actual_proteins[failed_slot] = 0
        /\ \A slot \in DOMAIN best_dishes : RecordedAsChosen(slot)

\* The request's cadence
Cadence == Get(normalize_user_data(user_data), "Meal_Frequency", "3 meals + 2 snacks")

InvalidRequest == plan_target <= 0 \/ Cadence \notin RecognizedFrequencies

\* C14: a request with a non-positive calorie total or an unrecognized
\* cadence fails as a whole: no plan is returned and no slot is filtered,
\* scored or selected for
C14_InvalidRequestFails ==
    (PlanDone /\ InvalidRequest) =>
        /\ returned \notin {"plan", "fallback"}
        /\ formatted_plan = EmptyDict
        /\ best_dishes = EmptyDict

\* The slot has no dish of its type in the catalog, or none that survives
\* the constraints
NoCandidate(slot) ==
    LET OfType(dish) == Get(dish, "meal_type", "") = BaseType(slot)
        candidates == SelectSeq(dishes, OfType)
    IN  \/ candidates = <<>>
        \/ /\ ~filter_raises(candidates)
           /\ filter_dishes_by_constraints(candidates, normalize_user_data(user_data))
                = <<>>

\* C15: every slot of the allocation that has no candidate holds a
\* placeholder with 0 calories and 0 protein in the plan returned, and the
\* plan has every slot of the allocation
C15_PlaceholderForEmptySlots ==
    (PlanDone /\ ~InvalidRequest) =>
        /\ DOMAIN formatted_plan = DOMAIN meal_calories
        /\ \A slot \in DOMAIN meal_calories : NoCandidate(slot) => IsPlaceholder(slot)

\* C16: on the normal path, for every slot in which a dish is chosen the
\* plan records the dish's declared calories and protein_grams, and never
\* the slot's calorie target in place of them
C16_RecordsDishOwnValues ==
    returned = "plan" =>
        \A slot \in DOMAIN best_dishes :
            best_dishes[slot] # None =>
                LET dish == best_dishes[slot]
                IN  /\ IF "calories" \in DOMAIN dish
                        THEN actual_calories[slot] = dish.calories
                        ELSE actual_calories[slot] # meal_calories[slot]
                    /\ "protein_grams" \in DOMAIN dish =>
                            actual_proteins[slot] = dish.protein_grams

(***************************************************************************)
(* Claims about the scoring and the selection of a slot                    *)
(***************************************************************************)
\* The share of the daily protein target the claim gives a slot, in
\* hundredths
ClaimedProteinShare(slot) ==
    IF slot = "breakfast" THEN 25
    ELSE IF slot = "lunch" THEN 35
    ELSE IF slot = "dinner" THEN 30
    ELSE 5

\* C17: the protein target the dishes of a slot are scored with is the daily
\* protein target times the slot's share: 25% for breakfast, 35% for lunch,
\* 30% for dinner, 5% for each snack
C17_SlotProteinShare ==
    \A slot \in DOMAIN protein_targets :
        protein_targets[slot]
            = calculate_user_protein_needs(normalize_user_data(user_data))
                * ClaimedProteinShare(slot)

\* The survivors of a slot's candidates, each with the score find_best_dish
\* gives it, in the order of the catalog
ScoredSurvivors(slot) ==
    LET OfType(dish) == Get(dish, "meal_type", "") = BaseType(slot)
        user == normalize_user_data(user_data)
        survivors == filter_dishes_by_constraints(SelectSeq(dishes, OfType), user)
    IN  [i \in 1..Len(survivors) |->
            <<survivors[i],
              calculate_comprehensive_score(survivors[i], user, 0,
                                            find_best_target_protein(user))>>]

\* C18: the dish selected for a slot is one of the 3 highest-ranked
\* survivors of the slot: of the first min(3, k) entries of the stable
\* descending ordering of the k survivors by score
C18_PickedFromTopThree ==
    \A slot \in DOMAIN best_dishes :
        best_dishes[slot] # None =>
            best_dishes[slot] \in Elements(TopDishes(ScoredSurvivors(slot), 3))

(***************************************************************************)
(* Claims about the text model (checked under SpecPlan)                    *)
(***************************************************************************)
\* A slot whose dish was chosen, so that a description of it was asked for
Described(slot) ==
    /\ slot \in DOMAIN best_dishes
    /\ best_dishes[slot] # None
    /\ best_dishes[slot] # EmptyDict

\* C20: the planning result does not depend on the text model. Whatever the
\* generator is (loaded, unavailable, empty output, raising), a slot whose
\* dish was chosen is never the slot at which the plan was given up, and as
\* long as the plan is not given up the slot records the values of the pick
\* alone: the dish's calories and protein.
C20_PlanIndependentOfTextModel ==
    \A slot \in DOMAIN best_dishes :
        Described(slot) =>
            /\ failed_slot # slot
            /\ failed_slot = "" =>
                  /\ actual_calories[slot] =
                        Get(best_dishes[slot], "calories", meal_calories[slot])
                  /\ actual_proteins[slot] =
                        Get(best_dishes[slot], "protein_grams", 0)

(***************************************************************************)
(* generate_meal_plan, the function, against generate_meal_plan, the steps *)
(***************************************************************************)
\* What the running call has returned
Returns ==
    PlanResult(returned, formatted_plan, actual_calories, actual_proteins)

\* Every return of the steps is a result of the function
ReturnsAResult ==
    ppc = "done" =>
        Returns \in generate_meal_plan(dishes, model_loaded, user_data, plan_target)

(***************************************************************************)
(* Claims about several requests (checked under SpecRequests)              *)
(***************************************************************************)
\* The calls, and the locals of each
Calls == DOMAIN suspended \cup {current}

FrameOf(r) == IF r = current THEN Locals ELSE suspended[r]

\* What a call that is over has returned
ReturnOf(r) ==
    PlanResult(FrameOf(r).returned, FrameOf(r).formatted_plan,
               FrameOf(r).actual_calories, FrameOf(r).actual_proteins)

\* A call that is over has returned a result that the same call returns on
\* a service that serves nothing else
ReturnsAsAlone ==
    \A r \in Calls :
        FrameOf(r).ppc = "done" =>
            ReturnOf(r) \in generate_meal_plan(dishes, model_loaded,
                                FrameOf(r).user_data, FrameOf(r).plan_target)

\* No step changes the catalog, or the profile and the total of any request
InputsKept ==
    /\ dishes' = dishes
    /\ Calls' = Calls
    /\ \A r \in Calls :
        /\ FrameOf(r)'.user_data = FrameOf(r).user_data
        /\ FrameOf(r)'.plan_target = FrameOf(r).plan_target

\* C19: whatever the interleaving of the requests' steps over the shared
\* catalog, no step modifies the catalog or a request's profile, and what a
\* request returns is one of the results it can return when it is served
\* alone on that catalog.
C19_RequestsIndependent == []ReturnsAsAlone /\ [][InputsKept]_vars

\* One call has returned a plan with a dish in it while a call for another
\* profile is between two slots, one of them filled with a dish
C19_Witness ==
    /\ ppc = "done"
    /\ returned = "plan"
    /\ \E slot \in DOMAIN best_dishes : Described(slot)
    /\ \E r \in DOMAIN suspended :
        /\ suspended[r].user_data # user_data
        /\ suspended[r].ppc = "slots"
        /\ suspended[r].pending # <<>>
        /\ \E slot \in DOMAIN suspended[r].formatted_plan :
              suspended[r].actual_calories[slot] # 0

(***************************************************************************)
(* Claims about the filter, the ranking and the factors (SpecCall)         *)
(***************************************************************************)
\* The three exclusions as stated: a shared allergen (case-insensitive), a
\* vegan or vegetarian user and a dish tagged non-vegetarian, a user with a
\* region and a dish of another region (case-insensitive)
ClaimedExcluded(dish, user) ==
    \/ SharesAllergen(dish, user)
    \/ /\ Lower(Get(user, "dietary_strictness", "")) \in {"vegan", "vegetarian"}
       /\ "non-vegetarian" \in Lowered(Get(dish, "diet_tags", <<>>))
    \/ /\ Get(user, "Region", "") # ""
       /\ Lower(Get(dish, "region", "")) # Lower(Get(user, "Region", ""))

\* The input without the excluded dishes, in the input's order
ClaimedSurvivors(dish_list, user) ==
    LET Kept(dish) == ~ClaimedExcluded(dish, user)
    IN  SelectSeq(dish_list, Kept)

\* C21: filter_dishes_by_constraints returns exactly the order-preserving
\* subsequence of its input made of the dishes that none of the three
\* exclusions applies to
C21_FilterIsExactSubsequence ==
    op = "filter_dishes_by_constraints" =>
        result = ClaimedSurvivors(dishes, user_data)

\* The dishes of the list that have the requested meal type and that the
\* constraint filter lets through, in the list's order
RankingCandidates ==
    LET OfType(dish) == Lower(Get(dish, "meal_type", "")) = Lower(args.meal_type)
    IN  filter_dishes_by_constraints(SelectSeq(dishes, OfType), user_data)

\* The score the call gives each candidate
CandidateScores ==
    LET candidates == RankingCandidates
    IN  [i \in 1..Len(candidates) |->
            calculate_comprehensive_score(candidates[i], user_data,
                                          args.target_calories, args.target_protein)]

Min(a, b) == IF a < b THEN a ELSE b

\* C22: get_best_dishes_by_meal_type returns the first min(top_n, k) of the k
\* candidates in the order of non-increasing score, candidates of one score in
\* their input order: its r-th element is the candidate that r - 1 others
\* precede, those of a higher score and those of the same score before it.
\* So it holds no dish of another meal type, no dish the filter removes and
\* no input position twice.
C22_RankedTopN ==
    op = "get_best_dishes_by_meal_type" =>
        LET candidates == RankingCandidates
            score == CandidateScores
            precede == [i \in 1..Len(candidates) |->
                            Cardinality({j \in 1..Len(candidates) :
                                \/ score[j] > score[i]
                                \/ score[j] = score[i] /\ j < i})]
        IN  /\ Len(result) = Min(args.top_n, Len(candidates))
            /\ \A r \in 1..Len(result) :
                \E i \in 1..Len(candidates) :
                    /\ precede[i] = r - 1
                    /\ result[r] = candidates[i]

\* Three candidates, the first two of one score and the third of a higher
\* one, two of them returned: the third, then the first
C22_Witness ==
    /\ op = "get_best_dishes_by_meal_type"
    /\ Len(RankingCandidates) = 3
    /\ RankingCandidates[1] # RankingCandidates[2]
    /\ CandidateScores[1] = CandidateScores[2]
    /\ CandidateScores[3] > CandidateScores[1]
    /\ args.top_n = 2
    /\ result = <<RankingCandidates[3], RankingCandidates[1]>>

(***************************************************************************)
(* Claims about the protein factor (checked under SpecProtein)             *)
(***************************************************************************)
\* dish protein / target protein, as <<numerator, denominator>> (the target
\* is in ten-thousandths of a gram)
ProteinRatio == <<Get(args.dish, "protein_grams", 0) * 10000, args.target_protein>>

\* lo <= ratio <= hi for lo and hi in tenths
RatioWithin(lo, hi) ==
    /\ lo * ProteinRatio[2] <= 10 * ProteinRatio[1]
    /\ 10 * ProteinRatio[1] <= hi * ProteinRatio[2]

\* The band as stated: first match from the tightest
ClaimedBand ==
    IF args.target_protein = 0 THEN 0
    ELSE IF RatioWithin(8, 12) THEN 3
    ELSE IF RatioWithin(6, 14) THEN 2
    ELSE IF RatioWithin(4, 16) THEN 1
    ELSE -1

\* C23: the protein factor is the band of dish protein / target protein, first
\* match from the tightest band (3, 2, 1, else -1; a ratio of exactly 1.4
\* gives 2, of exactly 1.6 gives 1), 0 when the target is 0 or absent; the
\* total score holds it times 1.5 (the model's scores are times 20, so 30
\* times the band on top of the score without a protein target)
C23_ProteinBands ==
    /\ op = "_calculate_protein_score" => result = ClaimedBand
    /\ op = "calculate_comprehensive_score" =>
        result = calculate_comprehensive_score(args.dish, user_data,
                                               args.target_calories, 0)
                    + 30 * ClaimedBand

\* A dish of 21 g for a target of 15 g, a ratio of exactly 1.4, was given 2
C23_Witness ==
    /\ op = "_calculate_protein_score"
    /\ args.target_protein = 150000
    /\ Get(args.dish, "protein_grams", 0) = 21
    /\ result = 2

(***************************************************************************)
(* Claims about the sign of the slot values (checked under SpecSplit)      *)
(***************************************************************************)
\* C24 (as claimed): for every total T > 0 and both cadences every slot value
\* of the returned distribution is a non-negative multiple of 10; no snack
\* slot is negative.
C24_SlotsNonNegativeMultiplesOfTen ==
    (spc = "done" /\ total_calories > 0 /\ meal_frequency \in RecognizedFrequencies)
        => \A m \in DOMAIN Dist :
            /\ Dist[m] >= 0
            /\ Dist[m] % 10 = 0

(***************************************************************************)
(* Claims about the keys of the returned maps (checked under SpecPlan)     *)
(***************************************************************************)
\* The slots of a cadence
CadenceSlots(cadence) ==
    IF cadence = "3 meals + 2 snacks"
        THEN {"breakfast", "lunch", "dinner", "snack_1", "snack_2"}
        ELSE {"breakfast", "lunch", "dinner"}

\* C25 (as claimed): every result of generate_meal_plan, on any path, the
\* error fallback included, has the same key set in its three maps, and it
\* is exactly the slot set of the requested cadence: three keys for
\* "3 meals", five for "3 meals + 2 snacks"
C25_KeySetsAreTheCadenceSlots ==
    (PlanDone /\ Cadence \in RecognizedFrequencies) =>
        /\ DOMAIN formatted_plan = CadenceSlots(Cadence)
        /\ DOMAIN actual_calories = CadenceSlots(Cadence)
        /\ DOMAIN actual_proteins = CadenceSlots(Cadence)

(***************************************************************************)
(* Claims about the allergy factor (checked under SpecCall)                *)
(***************************************************************************)
\* The user without the known_allergies key
WithoutAllergies(user) == [k \in DOMAIN user \ {"known_allergies"} |-> user[k]]

\* What the allergy factor adds to the total score of the dish (times 20)
AllergyContribution(dish, user, target_calories, target_protein) ==
    calculate_comprehensive_score(dish, user, target_calories, target_protein)
        - calculate_comprehensive_score(dish, WithoutAllergies(user),
                                        target_calories, target_protein)

\* The allergens of a list, whatever their case and the whitespace around
\* them
AllergensOf(list) == {Lower(Strip(a)) : a \in Elements(list)} \ {""}

\* The number of allergens the dish and the user share
SharedAllergens(dish, user) ==
    Cardinality(AllergensOf(Get(dish, "allergy_risks", <<>>))
                    \cap AllergensOf(Get(user, "known_allergies", <<>>)))

\* The dishes that reach scoring in find_best_dish
ReachScoring == filter_dishes_by_constraints(dishes, user_data)

\* Every dish that reaches scoring in get_best_dishes_by_meal_type (called by
\* get_optimal_dish) and in find_best_dish has an allergy factor of 0
AllergyFactorZeroInPipelines ==
    /\ op = "get_optimal_dish" =>
        \A i \in 1..Len(SurvivorsOfType(args.meal_type)) :
            /\ calculate_allergy_risk(SurvivorsOfType(args.meal_type)[i], user_data) = 0
            /\ AllergyContribution(SurvivorsOfType(args.meal_type)[i], user_data,
                                   args.target_calories, args.target_protein) = 0
    /\ op = "find_best_dish" =>
        \A i \in 1..Len(ReachScoring) :
            /\ calculate_allergy_risk(ReachScoring[i], user_data) = 0
            /\ AllergyContribution(ReachScoring[i], user_data, 0,
                                   find_best_target_protein(user_data)) = 0

\* The allergy factor of a dish scored without filtering is -10 for every
\* shared allergen (-200 in the model's units of 1/20), never positive
AllergyFactorCountsShared ==
    Scored =>
        /\ AllergyContribution(args.dish, user_data, args.target_calories,
                               args.target_protein)
                = 0 - 200 * SharedAllergens(args.dish, user_data)
        /\ AllergyContribution(args.dish, user_data, args.target_calories,
                               args.target_protein) <= 0

\* C26 (as claimed): in the ranking pipelines every dish that reaches scoring
\* has an allergy factor of exactly 0, so the penalty never changes the
\* order; for a dish scored without filtering the factor is -10 times the
\* number of allergens the dish shares with the user, and never positive
C26_AllergyFactor ==
    /\ AllergyFactorZeroInPipelines
    /\ AllergyFactorCountsShared

====
